---- MODULE Spec2Model ----
(***************************************************************************)
(* Model of app.py: the ESP per-device result ledger (ESP_RESULTS), its    *)
(* two-tier load, the /upload handler and the /summary handler, run by     *)
(* concurrent request threads that share the ledger, the lock ESP_LOCK,    *)
(* the working directory (transient image files, esp_results.json) and the *)
(* remote content store.                                                   *)
(*                                                                         *)
(* Confidences are kept in hundredths (0.4 is 40) so that they stay        *)
(* integers. A remote revision marker (the store's blob sha) is a hash of  *)
(* the blob's content and is modelled by the blob itself.                  *)
(***************************************************************************)
EXTENDS Integers, Sequences, FiniteSets, TLC

(* ------------------------------ bounds --------------------------------- *)
\* summary requests served in one behaviour
MaxSummaries == 2
\* failures of the environment in one behaviour: a file write, a gateway
\* call or a call to the remote store that does not succeed
MaxFaults == 2

(* --------------------------- program constants ------------------------- *)
TARGET_LABEL == "male"
CONF_THRESHOLD == 40

(* ------------------------------ threads -------------------------------- *)
\* the request threads of the server: each upload thread carries one upload
\* request, the summary thread carries summary requests one after another
Uploads == {"u1", "u2"}
Summaries == {"s1"}
NoThread == "none"

(* ------------------------------- inputs -------------------------------- *)
\* values of the X-ESP-ID header; "" is the header being absent
EspHeaders == {"", "cam1"}
\* device identifiers after the default of line 99
Keys == {"unknown", "cam1"}
\* timestamps, in seconds
Times == {1, 2}
\* values of the X-Timestamp header: absent, not an integer, or an integer
TsHeaders == {[kind |-> "absent", val |-> 0], [kind |-> "text", val |-> 0]}
             \cup {[kind |-> "int", val |-> n] : n \in Times}
Filenames == Keys \X Times

(* ------------------------------- ledger -------------------------------- *)
NoRec == [present |-> FALSE, count |-> 0, last_update |-> 0]
Rec(c, ms) == [present |-> TRUE, count |-> c, last_update |-> ms]
EmptyLedger == [k \in Keys |-> NoRec]

RECURSIVE SumCounts(_, _)
SumCounts(led, ks) ==
    IF ks = {} THEN 0
    ELSE LET k == CHOOSE x \in ks : TRUE
         IN  (IF led[k].present THEN led[k].count ELSE 0)
             + SumCounts(led, ks \ {k})

\* sum(v["count"] for v in ESP_RESULTS.values())
Total(led) == SumCounts(led, Keys)

(* ---------------------------- gateway values --------------------------- *)
\* a field that a prediction does not carry
Absent == "<absent>"
\* a field carrying JSON null
Null == "<null>"
NoConf == -1
Pred(c, l, cf, sc) ==
    [dict |-> TRUE, class |-> c, label |-> l, confidence |-> cf, score |-> sc]
\* a prediction that is not a JSON object (a string, a number)
NotADict ==
    [dict |-> FALSE, class |-> Absent, label |-> Absent,
     confidence |-> NoConf, score |-> NoConf]
NullConf == -2

\* str.lower() on the labels the gateway values below carry
Lower(s) ==
    CASE s = "MALE" -> "male"
      [] s = "Male" -> "male"
      [] OTHER -> s

\* the decoded JSON value run_workflow returned:
\*   "dict_predictions"  {"predictions": preds}
\*   "dict_null"         {"predictions": null}
\*   "dict_result"       {"result": preds}, no "predictions" key
\*   "dict_other"        an object with neither key
\*   "list"              a non-empty list of items
\*   "other"             anything else (null, a string, a number, [])
\* an item of a list is an object with a "predictions" list ("with"), an
\* object without one ("without") or a number ("number")
Result(sh, ps, its) == [shape |-> sh, preds |-> ps, items |-> its]
Item(k, ps) == [kind |-> k, preds |-> ps]

Male80 == Pred("male", Absent, 80, NoConf)
UpperMale40 == Pred("MALE", Absent, 40, NoConf)
Male39 == Pred("male", Absent, 39, NoConf)
Female90 == Pred("female", Absent, 90, NoConf)
MaleNoConf == Pred("male", Absent, NoConf, NoConf)
AliasMale80 == Pred(Absent, "male", NoConf, 80)
NullClass == Pred(Null, Absent, 80, NoConf)

GatewayResults ==
    { Result("dict_predictions", <<Male80>>, <<>>),
      Result("dict_predictions", <<UpperMale40, Male39, Female90, MaleNoConf>>, <<>>),
      Result("dict_predictions", <<AliasMale80>>, <<>>),
      Result("dict_predictions", <<Male80, NotADict>>, <<>>),
      Result("dict_predictions", <<NullClass>>, <<>>),
      Result("dict_null", <<>>, <<>>),
      Result("dict_result", <<Male80>>, <<>>),
      Result("dict_other", <<>>, <<>>),
      Result("list", <<>>, <<Item("with", <<Male80>>), Item("without", <<>>),
                             Item("with", <<UpperMale40>>)>>),
      Result("list", <<>>, <<Item("with", <<Male80>>), Item("number", <<>>),
                             Item("with", <<Male80>>)>>),
      Result("other", <<>>, <<>>) }

\* the values the gateway returns to the requests of the serving model: one
\* kept detection, none kept, and a prediction the filter raises on
ServedResults ==
    { Result("dict_predictions", <<Male80>>, <<>>),
      Result("dict_predictions", <<Male39>>, <<>>),
      Result("dict_predictions", <<Male80, NotADict>>, <<>>) }

\* lines 140-142: extend predictions item by item; `"predictions" in item`
\* raises TypeError on a number, which the except of line 148 swallows with
\* the predictions gathered so far kept
RECURSIVE ExtendFrom(_, _, _)
ExtendFrom(items, i, acc) ==
    IF i > Len(items) THEN acc
    ELSE IF items[i].kind = "number" THEN acc
    ELSE IF items[i].kind = "with"
         THEN ExtendFrom(items, i + 1, acc \o items[i].preds)
    ELSE ExtendFrom(items, i + 1, acc)

\* lines 137-149: the predictions list; iterable is FALSE when the value
\* bound to predictions is null, which the comprehension cannot iterate
ParsePredictions(result) ==
    CASE result.shape = "list" ->
            [iterable |-> TRUE, preds |-> ExtendFrom(result.items, 1, <<>>)]
      [] result.shape = "dict_predictions" ->
            [iterable |-> TRUE, preds |-> result.preds]
      [] result.shape = "dict_null" ->
            [iterable |-> FALSE, preds |-> <<>>]
      [] result.shape = "dict_result" ->
            [iterable |-> TRUE, preds |-> result.preds]
      [] OTHER -> [iterable |-> TRUE, preds |-> <<>>]

\* p.get("class", "")
GetClass(p) == IF p.class = Absent THEN "" ELSE p.class
\* p.get("confidence", 0)
GetConfidence(p) == IF p.confidence = NoConf THEN 0 ELSE p.confidence

LabelMatches(p) == Lower(GetClass(p)) = Lower(TARGET_LABEL)

\* line 153 raises on p: p has no .get, None has no .lower(), or None >= 0.4
PredRaises(p) ==
    \/ ~p.dict
    \/ p.class = Null
    \/ LabelMatches(p) /\ p.confidence = NullConf

\* line 153: the condition of the comprehension
Keeps(p) == LabelMatches(p) /\ GetConfidence(p) >= CONF_THRESHOLD

FilterRaises(parsed) ==
    \/ ~parsed.iterable
    \/ \E i \in 1..Len(parsed.preds) : PredRaises(parsed.preds[i])

\* lines 151-154
Filtered(preds) == SelectSeq(preds, Keeps)

(* ------------------------------- storage ------------------------------- *)
\* esp_results.json in the working directory, and the blob esp_results.json
\* of the remote store: missing, not decodable as JSON, or a ledger
NoBlob == [state |-> "missing", content |-> EmptyLedger]
Garbage == [state |-> "malformed", content |-> EmptyLedger]
Blob(led) == [state |-> "valid", content |-> led]

\* a transient image file: the bytes it holds and whether the write finished
NoFile == [data |-> "", whole |-> FALSE]
File(d, w) == [data |-> d, whole |-> w]
Exists(f) == f.data # ""

\* request.data of the request a thread carries
BodyOf(t) == IF t = "u1" THEN "jpegA" ELSE "jpegB"

\* the two requests are interchangeable, so the first is pinned to one device
\* and one second and the other ranges over both devices and both seconds:
\* same device and same second, same device and another second, another
\* device
EspHeadersOf(t) == IF t = "u1" THEN {"cam1"} ELSE EspHeaders
TimesOf(t) == IF t = "u1" THEN {1} ELSE Times
TsHeadersOf(t) == {h \in TsHeaders : h.kind = "int" => h.val \in TimesOf(t)}

(* -------------------------------- state -------------------------------- *)
VARIABLES
    ESP_RESULTS,    \* the in-memory ledger
    ESP_LOCK,       \* the thread holding the lock, or NoThread
    localFile,      \* esp_results.json on local storage
    remote,         \* esp_results.json in the remote store
    files,          \* transient image files by (esp_id, timestamp)
    rq,             \* per upload thread: the request it is handling
    resp,           \* per upload thread: the response of its last request
    sq,             \* per summary thread: the request it is handling
    sresp,          \* per summary thread: the response of its last request
    ld,             \* load_esp_results at start-up
    hist            \* history: counters and facts the properties refer to

vars == <<ESP_RESULTS, ESP_LOCK, localFile, remote, files, rq, resp, sq, sresp,
          ld, hist>>

NoSteps == {}
\* a request: where its handler stands (pc), its input (data), the handler's
\* locals, and what is recorded of its course: the step that ended it short
\* of line 223 (cause), whether that was an exception leaving the handler
\* (raised), the steps of lines 157-219 it performed (steps) and those of
\* them that failed (failed). A request rejected at line 97 keeps the
\* headers it came with (hdr, tsh), which the handler never read. result is
\* the value the gateway returned to it.
NoResult == Result("other", <<>>, <<>>)
IdleRq ==
    [pc |-> "idle", data |-> "", hdr |-> "", tsh |-> "", esp_id |-> "unknown",
     timestamp |-> 1, result |-> NoResult, count |-> 0, objects |-> <<>>,
     github |-> FALSE,
     sha |-> NoBlob, json |-> EmptyLedger, total_all |-> 0, cause |-> "",
     raised |-> FALSE, steps |-> NoSteps, failed |-> NoSteps]
NoResp ==
    [status |-> 0, error |-> "", detail |-> FALSE, esp_id |-> "",
     detected_this_esp |-> 0, total_all_esp |-> 0, per_esp |-> EmptyLedger,
     objects |-> <<>>, github_image_success |-> FALSE]
NoSresp == [status |-> 0, total_all_esp |-> 0, per_esp |-> EmptyLedger]
\* a summary request: where its handler stands, the sum it computed, and what
\* is recorded of it: the ledger when it took the lock (snap), the response
\* of the call before it (prev) and whether an upload replaced a record
\* between that call and this one (dirty)
IdleSq ==
    [pc |-> "idle", total |-> 0, snap |-> EmptyLedger, prev |-> NoSresp,
     dirty |-> FALSE]

\* jsonify({"error": e}), 400 or jsonify({"error": e, "detail": str(exc)}), 500
ErrorResp(st, e, d) == [NoResp EXCEPT !.status = st, !.error = e, !.detail = d]
\* an exception that leaves the handler: the framework answers 500 itself,
\* with no JSON body of the handler's
Unhandled == [NoResp EXCEPT !.status = 500]

Filename(r) == <<r.esp_id, r.timestamp>>

(* ------------------------------ failures ------------------------------ *)
\* whether the environment may still fail a call
MayFail == hist.faults < MaxFaults
Fault(h, failed) == IF failed THEN [h EXCEPT !.faults = @ + 1] ELSE h

(* ---------------------------- the lock --------------------------------- *)
\* a with block entered without waiting for the holder to leave
AcquireWithoutWaiting(t) == TRUE

\* `with ESP_LOCK:` blocks until no thread holds the lock
CanAcquire(t) == ESP_LOCK = NoThread
\* a with block left without the lock being given back
NotReleased(t) == ESP_LOCK

\* leaving the with block
Released(t) == IF ESP_LOCK = t THEN NoThread ELSE ESP_LOCK

(* ------------------------------ /upload -------------------------------- *)
\* the test of the body left out
NoImageDataUnchecked(d) == FALSE

\* line 96: `not request.data`
NoImageData(d) == d = ""

\* line 99: request.headers.get("X-ESP-ID", "unknown")
EspId(hdr) == IF hdr = "" THEN "unknown" ELSE hdr

\* lines 101-108: the header when it parses as an integer, else server time
Timestamp(tsh, now) == IF tsh.kind = "int" THEN tsh.val ELSE now

\* the outcomes of writing a file: done, open() raised (nothing written), or
\* write() raised after open() truncated or created the file
WriteOutcomes == {"ok", "open_fails", "write_fails"}

\* lines 96-119: validate, name the transient file and write it; hdrs, tshs
\* and times are the header values and the server times the request may
\* come with
ReceiveFrom(t, hdrs, tshs, times) ==
    /\ ld.pc = "done"
    /\ rq[t].pc = "idle"
    /\ \E d \in {"", BodyOf(t)}, hdr \in hdrs, tsh \in tshs,
          now \in times, wr \in WriteOutcomes :
         /\ wr = "ok" \/ (MayFail /\ ~NoImageData(d))
         /\ hist' = Fault(hist, wr # "ok")
         /\ LET r == [IdleRq EXCEPT !.data = d, !.esp_id = EspId(hdr),
                                    !.timestamp = Timestamp(tsh, now)]
                fn == Filename(r)
            IN  IF NoImageData(d)
                THEN /\ rq' = [rq EXCEPT ![t] =
                                  [IdleRq EXCEPT !.pc = "done", !.cause = "empty",
                                                 !.hdr = hdr, !.tsh = tsh.kind]]
                     /\ resp' = [resp EXCEPT ![t] =
                                    ErrorResp(400, "no image data", FALSE)]
                     /\ files' = files
                ELSE IF wr = "ok"
                THEN /\ rq' = [rq EXCEPT ![t] = [r EXCEPT !.pc = "infer"]]
                     /\ resp' = [resp EXCEPT ![t] = NoResp]
                     /\ files' = [files EXCEPT ![fn] = File(d, TRUE)]
                ELSE /\ rq' = [rq EXCEPT ![t] =
                                  [r EXCEPT !.pc = "done", !.cause = "temp_write"]]
                     /\ resp' = [resp EXCEPT ![t] =
                                    ErrorResp(500, "save temp image failed", TRUE)]
                     /\ files' = IF wr = "write_fails"
                                 THEN [files EXCEPT ![fn] = File(d, FALSE)]
                                 ELSE files
    /\ UNCHANGED <<ESP_RESULTS, ESP_LOCK, localFile, remote, sq, sresp, ld>>

Receive(t) == ReceiveFrom(t, EspHeadersOf(t), TsHeadersOf(t), TimesOf(t))

\* lines 121-155: the gateway call on the transient file, then parsing and
\* filtering of what it returned. The call raises when the gateway fails and
\* when the file it is handed is gone; the filter's exception is not caught.
\* results is the set of values the gateway may return.
RunWorkflowOn(t, results) ==
    /\ rq[t].pc = "infer"
    /\ \E out \in {[raised |-> TRUE, result |-> NoResult]}
                  \cup {[raised |-> FALSE, result |-> g] : g \in results} :
         LET r == [rq[t] EXCEPT !.result = out.result]
             parsed == ParsePredictions(out.result)
             gone == ~Exists(files[Filename(r)])
         IN  /\ gone => out.raised
             /\ (out.raised /\ ~gone) => MayFail
             /\ hist' = Fault(hist, out.raised /\ ~gone)
             /\ IF out.raised
                THEN /\ rq' = [rq EXCEPT ![t] =
                                  [r EXCEPT !.pc = "fail_exists", !.cause = "inference"]]
                     /\ resp' = resp
                ELSE IF FilterRaises(parsed)
                THEN /\ rq' = [rq EXCEPT ![t] =
                                  [r EXCEPT !.pc = "done", !.cause = "filter",
                                            !.raised = TRUE]]
                     /\ resp' = [resp EXCEPT ![t] = Unhandled]
                ELSE /\ rq' = [rq EXCEPT ![t] =
                                  [r EXCEPT !.pc = "archive",
                                            !.objects = Filtered(parsed.preds),
                                            !.count = Len(Filtered(parsed.preds))]]
                     /\ resp' = resp
    /\ UNCHANGED <<ESP_RESULTS, ESP_LOCK, localFile, remote, files, sq, sresp, ld>>

RunWorkflow(t) == RunWorkflowOn(t, ServedResults)

\* line 134
WorkflowFailed == ErrorResp(500, "roboflow workflow failed", TRUE)

\* line 132: os.path.exists(temp_path) on the failure path
FailExists(t) ==
    /\ rq[t].pc = "fail_exists"
    /\ IF Exists(files[Filename(rq[t])])
       THEN /\ rq' = [rq EXCEPT ![t].pc = "fail_remove"]
            /\ resp' = resp
       ELSE /\ rq' = [rq EXCEPT ![t].pc = "done"]
            /\ resp' = [resp EXCEPT ![t] = WorkflowFailed]
    /\ UNCHANGED <<ESP_RESULTS, ESP_LOCK, localFile, remote, files, sq, sresp, ld, hist>>

\* lines 133-134: os.remove(temp_path), which raises when the file is gone
FailRemove(t) ==
    /\ rq[t].pc = "fail_remove"
    /\ IF Exists(files[Filename(rq[t])])
       THEN /\ files' = [files EXCEPT ![Filename(rq[t])] = NoFile]
            /\ rq' = [rq EXCEPT ![t].pc = "done"]
            /\ resp' = [resp EXCEPT ![t] = WorkflowFailed]
       ELSE /\ files' = files
            /\ rq' = [rq EXCEPT ![t].pc = "done", ![t].raised = TRUE]
            /\ resp' = [resp EXCEPT ![t] = Unhandled]
    /\ UNCHANGED <<ESP_RESULTS, ESP_LOCK, localFile, remote, sq, sresp, ld, hist>>

\* the outcomes of a call to the remote store: answered with a success
\* status, answered with another status, or a transport error (an exception)
CallOutcomes == {"ok", "status", "exception"}

\* an archival failure that ends the request
ArchivedOrAborted(r, ok) ==
    IF ok
    THEN [r EXCEPT !.pc = "ok_exists", !.github = TRUE, !.steps = @ \cup {"archive"}]
    ELSE [r EXCEPT !.pc = "done", !.steps = @ \cup {"archive"},
                   !.failed = @ \cup {"archive"}]

\* lines 158-184: after the archival attempt the handler goes on, whatever
\* the outcome was
Archived(r, ok) ==
    [r EXCEPT !.pc = "ok_exists", !.github = ok,
              !.steps = @ \cup {"archive"},
              !.failed = IF ok THEN @ ELSE @ \cup {"archive"}]

\* lines 158-184: read the transient file back and put it to the store;
\* open() raises when the file is gone, inside the try
Archive(t) ==
    /\ rq[t].pc = "archive"
    /\ \E o \in CallOutcomes :
         /\ o = "ok" \/ MayFail
         /\ hist' = Fault(hist, o # "ok")
         /\ rq' = [rq EXCEPT ![t] =
                      Archived(rq[t], Exists(files[Filename(rq[t])]) /\ o = "ok")]
    /\ UNCHANGED <<ESP_RESULTS, ESP_LOCK, localFile, remote, files, resp, sq, sresp, ld>>

\* line 186
OkExists(t) ==
    /\ rq[t].pc = "ok_exists"
    /\ rq' = [rq EXCEPT ![t].pc =
                 IF Exists(files[Filename(rq[t])]) THEN "ok_remove" ELSE "lock"]
    /\ UNCHANGED <<ESP_RESULTS, ESP_LOCK, localFile, remote, files, resp, sq, sresp,
                   ld, hist>>

\* line 187: os.remove(temp_path), which raises when the file is gone
OkRemove(t) ==
    /\ rq[t].pc = "ok_remove"
    /\ IF Exists(files[Filename(rq[t])])
       THEN /\ files' = [files EXCEPT ![Filename(rq[t])] = NoFile]
            /\ rq' = [rq EXCEPT ![t].pc = "lock"]
            /\ resp' = resp
       ELSE /\ files' = files
            /\ rq' = [rq EXCEPT ![t].pc = "done", ![t].cause = "remove",
                                ![t].raised = TRUE]
            /\ resp' = [resp EXCEPT ![t] = Unhandled]
    /\ UNCHANGED <<ESP_RESULTS, ESP_LOCK, localFile, remote, sq, sresp, ld, hist>>

\* the ledger overwritten by the one record instead of merged into
ReplacedWholeLedger(led, esp_id, count, timestamp) ==
    [EmptyLedger EXCEPT ![esp_id] = Rec(count, timestamp * 1000)]

\* lines 191-194: ESP_RESULTS[esp_id] = {"count": ..., "last_update": ...}
Replaced(led, esp_id, count, timestamp) ==
    [led EXCEPT ![esp_id] = Rec(count, timestamp * 1000)]

\* lines 190-194: take the lock and replace the device's record
UpdateResults(t) ==
    /\ rq[t].pc = "lock"
    /\ CanAcquire(t)
    /\ ESP_LOCK' = t
    /\ ESP_RESULTS' = Replaced(ESP_RESULTS, rq[t].esp_id, rq[t].count, rq[t].timestamp)
    /\ rq' = [rq EXCEPT ![t].pc = "save", ![t].steps = @ \cup {"update"}]
    /\ hist' = [hist EXCEPT !.changed = hist.summaries > 0]
    /\ UNCHANGED <<localFile, remote, files, resp, sq, sresp, ld>>

\* lines 62-68 (save_esp_results): the local file after the attempt
Saved(file, led, wr) ==
    CASE wr = "ok" -> Blob(led)
      [] wr = "write_fails" -> Garbage
      [] OTHER -> file

\* the with block ending after the local save, the backup outside it
ReleasedAfterSave(t) == NoThread

\* the lock after the local save of line 195: the with block goes on
HeldAfterSave(t) == ESP_LOCK

\* line 195: save_esp_results(), whose failure is caught and logged
SaveResults(t) ==
    /\ rq[t].pc = "save"
    /\ \E wr \in WriteOutcomes :
         /\ wr = "ok" \/ MayFail
         /\ hist' = Fault(hist, wr # "ok")
         /\ localFile' = Saved(localFile, ESP_RESULTS, wr)
         /\ rq' = [rq EXCEPT ![t].pc = "backup_get",
                             ![t].steps = @ \cup {"save"},
                             ![t].failed = IF wr = "ok" THEN @ ELSE @ \cup {"save"}]
    /\ ESP_LOCK' = HeldAfterSave(t)
    /\ UNCHANGED <<ESP_RESULTS, remote, files, resp, sq, sresp, ld>>

\* a backup failure that leaves the handler as an exception
BackupFailedAborts(r) == [r EXCEPT !.pc = "done", !.failed = @ \cup {"backup"}]

\* lines 216-219: a backup that did not succeed is logged, and the handler
\* goes on to line 221
BackupFailed(r) == [r EXCEPT !.pc = "total", !.failed = @ \cup {"backup"}]

\* lines 199-204: serialize the ledger, then look the blob's marker up. The
\* store answers 200 with the marker or 404; a transport error raises and
\* ends the backup (line 218)
BackupGet(t) ==
    /\ rq[t].pc = "backup_get"
    /\ \E o \in {"answer", "exception"} :
         /\ o = "answer" \/ MayFail
         /\ hist' = Fault(hist, o # "answer")
         /\ IF o = "answer"
            THEN /\ rq' = [rq EXCEPT ![t].pc = "backup_put",
                                     ![t].json = ESP_RESULTS,
                                     ![t].sha = remote,
                                     ![t].steps = @ \cup {"backup_get"}]
                 /\ ESP_LOCK' = ESP_LOCK
            ELSE /\ rq' = [rq EXCEPT ![t] =
                              BackupFailed([rq[t] EXCEPT
                                               !.steps = @ \cup {"backup_get"}])]
                 /\ ESP_LOCK' = Released(t)
    /\ UNCHANGED <<ESP_RESULTS, localFile, remote, files, resp, sq, sresp, ld>>

\* the store's conditional write: accepted when the marker sent is the
\* blob's current one, or when none is sent and the blob does not exist
MarkerCurrent(sha) == sha = remote

\* lines 206-219: the conditional write, then the end of the with block
BackupPut(t) ==
    /\ rq[t].pc = "backup_put"
    /\ \E o \in CallOutcomes :
         /\ o = "ok" \/ MayFail
         /\ remote' = IF o = "ok" /\ MarkerCurrent(rq[t].sha)
                      THEN Blob(rq[t].json) ELSE remote
         /\ hist' = Fault([hist EXCEPT !.conflict =
                               @ \/ (o = "ok" /\ ~MarkerCurrent(rq[t].sha))],
                          o # "ok")
         /\ LET r == [rq[t] EXCEPT !.pc = "total", !.sha = NoBlob,
                                    !.json = EmptyLedger,
                                    !.steps = @ \cup {"backup_put"}]
            IN  rq' = [rq EXCEPT ![t] =
                          IF o = "ok" /\ MarkerCurrent(rq[t].sha)
                          THEN r ELSE BackupFailed(r)]
    /\ ESP_LOCK' = Released(t)
    /\ UNCHANGED <<ESP_RESULTS, localFile, files, resp, sq, sresp, ld>>

\* line 221, outside the with block
ComputeTotal(t) ==
    /\ rq[t].pc = "total"
    /\ rq' = [rq EXCEPT ![t].pc = "respond", ![t].total_all = Total(ESP_RESULTS)]
    /\ UNCHANGED <<ESP_RESULTS, ESP_LOCK, localFile, remote, files, resp, sq, sresp,
                   ld, hist>>

\* lines 223-231: jsonify serializes ESP_RESULTS as it is now
Respond(t) ==
    /\ rq[t].pc = "respond"
    /\ resp' = [resp EXCEPT ![t] =
                   [status |-> 200, error |-> "", detail |-> FALSE,
                    esp_id |-> rq[t].esp_id,
                    detected_this_esp |-> rq[t].count,
                    total_all_esp |-> rq[t].total_all,
                    per_esp |-> ESP_RESULTS,
                    objects |-> rq[t].objects,
                    github_image_success |-> rq[t].github]]
    /\ rq' = [rq EXCEPT ![t].pc = "done", ![t].total_all = 0]
    /\ UNCHANGED <<ESP_RESULTS, ESP_LOCK, localFile, remote, files, sq, sresp, ld, hist>>

(* ------------------------------ /summary ------------------------------- *)
\* the summary reading the ledger without holding the lock
LockNotTaken(s) == ESP_LOCK

\* line 236: `with ESP_LOCK:` makes the summary thread the lock's holder
LockTakenBy(s) == s

\* a summary that reports the counts and starts them over
ResetAfterSummary(led) == EmptyLedger

\* lines 237-240: the handler reads ESP_RESULTS and assigns nothing
AfterSummary(led) == led

\* lines 236-238: take the lock and sum the counts
SummaryEnter(s) ==
    /\ ld.pc = "done"
    /\ sq[s].pc \in {"idle", "done"}
    /\ hist.summaries < MaxSummaries
    /\ CanAcquire(s)
    /\ ESP_LOCK' = LockTakenBy(s)
    /\ sq' = [sq EXCEPT ![s] = [pc |-> "locked", total |-> Total(ESP_RESULTS),
                                snap |-> ESP_RESULTS, prev |-> sresp[s],
                                dirty |-> hist.changed]]
    /\ sresp' = [sresp EXCEPT ![s] = NoSresp]
    /\ hist' = [hist EXCEPT !.summaries = @ + 1, !.changed = FALSE]
    /\ UNCHANGED <<ESP_RESULTS, localFile, remote, files, rq, resp, ld>>

\* lines 237-240: jsonify the total and the ledger, leave the with block
SummaryRespond(s) ==
    /\ sq[s].pc = "locked"
    /\ sresp' = [sresp EXCEPT ![s] =
                    [status |-> 200, total_all_esp |-> sq[s].total,
                     per_esp |-> ESP_RESULTS]]
    /\ sq' = [sq EXCEPT ![s].pc = "done", ![s].total = 0]
    /\ ESP_LOCK' = Released(s)
    /\ ESP_RESULTS' = AfterSummary(ESP_RESULTS)
    /\ UNCHANGED <<localFile, remote, files, rq, resp, ld, hist>>

(* ------------------------- load_esp_results ---------------------------- *)
\* ledgers a file or a blob left by an earlier run may hold
StoredRecs == {NoRec, Rec(1, 1000), Rec(2, 2000)}
StoredLedgers == [Keys -> StoredRecs]
StoredBlobs == {NoBlob, Garbage} \cup {Blob(l) : l \in StoredLedgers}

LoadStart ==
    [pc |-> "local", fetched |-> FALSE, raised |-> FALSE, local |-> "none",
     fetch |-> "none", persist |-> "none", local0 |-> NoBlob, remote0 |-> NoBlob]
LoadDone == [LoadStart EXCEPT !.pc = "done"]

\* a local failure that leaves load_esp_results as an exception
AfterLocalFailureRaised(l, why) ==
    [l EXCEPT !.pc = "done", !.local = why, !.raised = TRUE]

\* lines 44-47: the except clause logs and falls through to the remote fetch
AfterLocalFailure(l, why) == [l EXCEPT !.pc = "remote", !.local = why]

\* lines 38-45: the local tier. Reading raises on an I/O error and on
\* content json.load cannot decode
LoadLocal ==
    /\ ld.pc = "local"
    /\ \E rd \in {"ok", "io_error"} :
         IF localFile.state = "missing"
         THEN /\ ld' = [ld EXCEPT !.pc = "remote", !.local = "missing"]
              /\ ESP_RESULTS' = ESP_RESULTS
         ELSE IF rd = "io_error"
         THEN /\ ld' = AfterLocalFailure(ld, "io_error")
              /\ ESP_RESULTS' = ESP_RESULTS
         ELSE IF localFile.state = "malformed"
         THEN /\ ld' = AfterLocalFailure(ld, "malformed")
              /\ ESP_RESULTS' = ESP_RESULTS
         ELSE /\ ld' = [ld EXCEPT !.pc = "done", !.local = "valid"]
              /\ ESP_RESULTS' = localFile.content
    /\ UNCHANGED <<ESP_LOCK, localFile, remote, files, rq, resp, sq, sresp, hist>>

\* lines 52-54: the decoded blob becomes the ledger and is then written to
\* the local file
AfterFetch(l) == [l EXCEPT !.pc = "persist", !.fetched = TRUE, !.fetch = "valid"]

\* lines 48-60: the remote tier. Anything but a 200 with a decodable blob
\* ends at line 60 with the empty ledger
LoadRemote ==
    /\ ld.pc = "remote"
    /\ \E o \in CallOutcomes :
         IF o = "ok" /\ remote.state = "valid"
         THEN /\ ld' = AfterFetch(ld)
              /\ ESP_RESULTS' = remote.content
         ELSE /\ ld' = [ld EXCEPT !.pc = "done", !.fetched = TRUE,
                          !.fetch = CASE o = "exception" -> "transport"
                                      [] o = "status" -> "non200"
                                      [] remote.state = "missing" -> "non200"
                                      [] OTHER -> "undecodable"]
              /\ ESP_RESULTS' = EmptyLedger
    /\ UNCHANGED <<ESP_LOCK, localFile, remote, files, rq, resp, sq, sresp, hist>>

\* the fetched ledger adopted but not written to the local file
PersistedNowhere(file, led, wr) == file

\* lines 53-54: the local file after the attempt to write the fetched ledger
Persisted(file, led, wr) ==
    CASE wr = "ok" -> Blob(led)
      [] wr = "write_fails" -> Garbage
      [] OTHER -> file

\* lines 57-60: a failed local write is caught by the except of line 57 and
\* control reaches line 60
LedgerAfterPersist(led, wr) == IF wr = "ok" THEN led ELSE EmptyLedger

\* lines 53-56: persist the fetched ledger locally
LoadPersist ==
    /\ ld.pc = "persist"
    /\ \E wr \in WriteOutcomes :
         /\ localFile' = Persisted(localFile, ESP_RESULTS, wr)
         /\ ESP_RESULTS' = LedgerAfterPersist(ESP_RESULTS, wr)
         /\ ld' = [ld EXCEPT !.pc = "done", !.persist = wr]
    /\ UNCHANGED <<ESP_LOCK, remote, files, rq, resp, sq, sresp, hist>>

(* --------------------------- specifications ---------------------------- *)
NoHist ==
    [summaries |-> 0, faults |-> 0, conflict |-> FALSE, changed |-> FALSE]

InitRequests ==
    /\ ESP_LOCK = NoThread
    /\ files = [f \in Filenames |-> NoFile]
    /\ rq = [t \in Uploads |-> IdleRq]
    /\ resp = [t \in Uploads |-> NoResp]
    /\ sq = [s \in Summaries |-> IdleSq]
    /\ sresp = [s \in Summaries |-> NoSresp]
    /\ hist = NoHist

\* serving starts once load_esp_results (line 70) has returned; here on a
\* first run, with nothing stored locally or remotely (the blob and the file
\* come to exist with the first upload that backs the ledger up)
Init ==
    /\ InitRequests
    /\ ld = LoadDone
    /\ ESP_RESULTS = EmptyLedger
    /\ localFile = NoBlob
    /\ remote = NoBlob

Next ==
    \/ \E t \in Uploads : Receive(t)
    \/ \E t \in Uploads : RunWorkflow(t)
    \/ \E t \in Uploads : FailExists(t)
    \/ \E t \in Uploads : FailRemove(t)
    \/ \E t \in Uploads : Archive(t)
    \/ \E t \in Uploads : OkExists(t)
    \/ \E t \in Uploads : OkRemove(t)
    \/ \E t \in Uploads : UpdateResults(t)
    \/ \E t \in Uploads : SaveResults(t)
    \/ \E t \in Uploads : BackupGet(t)
    \/ \E t \in Uploads : BackupPut(t)
    \/ \E t \in Uploads : ComputeTotal(t)
    \/ \E t \in Uploads : Respond(t)
    \/ \E s \in Summaries : SummaryEnter(s)
    \/ \E s \in Summaries : SummaryRespond(s)

Spec == Init /\ [][Next]_vars

\* what the gateway returns in the behaviours checked for progress, where
\* the counts play no part: one kept detection
FairResults == {Result("dict_predictions", <<Male80>>, <<>>)}

\* a step of the handler of an upload that has been received
UploadStep(t) ==
    \/ RunWorkflowOn(t, FairResults) \/ FailExists(t) \/ FailRemove(t)
    \/ Archive(t) \/ OkExists(t) \/ OkRemove(t) \/ UpdateResults(t)
    \/ SaveResults(t) \/ BackupGet(t) \/ BackupPut(t) \/ ComputeTotal(t)
    \/ Respond(t)

\* the requests of those behaviours: one from each device, without an
\* X-Timestamp header, in the same second
FairHeaders(t) == IF t = "u1" THEN {"cam1"} ELSE {""}
FairTsHeaders == {h \in TsHeaders : h.kind = "absent"}
FairTimes == {1}

NextFair ==
    \/ \E t \in Uploads : ReceiveFrom(t, FairHeaders(t), FairTsHeaders, FairTimes)
    \/ \E t \in Uploads : UploadStep(t)
    \/ \E s \in Summaries : SummaryEnter(s)
    \/ \E s \in Summaries : SummaryRespond(s)

\* every request thread that can take a step eventually takes one: the
\* scheduler is fair, and every outbound call returns or times out (the
\* timeouts of lines 167, 177, 203 and 213). Whether a request arrives is up
\* to the clients.
Fairness ==
    /\ \A t \in Uploads : WF_vars(UploadStep(t))
    /\ \A s \in Summaries : WF_vars(SummaryRespond(s))

SpecFair == Init /\ [][NextFair]_vars /\ Fairness

\* the module is imported: ESP_RESULTS = {} (line 22), then line 70 runs
\* load_esp_results against whatever the local file and the remote blob hold
InitLoad ==
    /\ InitRequests
    /\ ESP_RESULTS = EmptyLedger
    /\ localFile \in StoredBlobs
    /\ remote \in StoredBlobs
    /\ ld = [LoadStart EXCEPT !.local0 = localFile, !.remote0 = remote]

NextLoad == LoadLocal \/ LoadRemote \/ LoadPersist

SpecLoad == InitLoad /\ [][NextLoad]_vars

\* one upload request served alone, from any device at any second, to which
\* the gateway may return any of GatewayResults
Single == "u2"

NextSingle ==
    \/ Receive(Single)
    \/ RunWorkflowOn(Single, GatewayResults)
    \/ FailExists(Single)
    \/ FailRemove(Single)
    \/ Archive(Single)
    \/ OkExists(Single)
    \/ OkRemove(Single)
    \/ UpdateResults(Single)
    \/ SaveResults(Single)
    \/ BackupGet(Single)
    \/ BackupPut(Single)
    \/ ComputeTotal(Single)
    \/ Respond(Single)

SpecSingle == Init /\ [][NextSingle]_vars

(* ------------------------------ properties ----------------------------- *)
Done(t) == rq[t].pc = "done"
Ok(t) == resp[t].status = 200
\* the record a request writes for its device
OwnRec(t) == Rec(rq[t].count, rq[t].timestamp * 1000)
\* the request got through the inference stage (lines 121-155)
PassedInference(t) ==
    /\ rq[t].pc \notin {"idle", "infer"}
    /\ rq[t].cause \notin {"empty", "temp_write", "inference", "filter"}
\* the transient file of the request is on local storage with its bytes
OwnFileLeft(t) == files[Filename(rq[t])].data = BodyOf(t)

\* C1: in every 200 response of /upload, total_all_esp is the sum of count
\* over the per_esp map of that same response.
C1_TotalIsSumOfReturnedMap ==
    \A t \in Uploads :
        Ok(t) => resp[t].total_all_esp = Total(resp[t].per_esp)

\* the request has replaced its device's record (line 191)
Updated(t) == "update" \in rq[t].steps

\* C2: when two uploads with distinct device identifiers both get through
\* inference, then from the moment both have replaced their record the
\* ledger holds for each device the record with the count its own request
\* computed; once both have completed, both did so, and the per_esp map each
\* returned holds its own record.
C2_NoLostUpdate ==
    \A t1 \in Uploads : \A t2 \in Uploads \ {t1} :
        rq[t1].esp_id # rq[t2].esp_id =>
           /\ (Updated(t1) /\ Updated(t2)) =>
                 /\ ESP_RESULTS[rq[t1].esp_id] = OwnRec(t1)
                 /\ ESP_RESULTS[rq[t2].esp_id] = OwnRec(t2)
           /\ ( /\ Done(t1) /\ Done(t2)
                /\ PassedInference(t1) /\ PassedInference(t2) ) =>
                 /\ Updated(t1) /\ Updated(t2)
                 /\ Ok(t1) /\ resp[t1].per_esp[rq[t1].esp_id] = OwnRec(t1)

\* two uploads for distinct devices with different counts that overlapped:
\* each one's response already shows the other's record
C2_Witness ==
    \E t1 \in Uploads : \E t2 \in Uploads \ {t1} :
        /\ Done(t1) /\ Done(t2) /\ Ok(t1) /\ Ok(t2)
        /\ rq[t1].esp_id # rq[t2].esp_id
        /\ rq[t1].count = 1 /\ rq[t2].count = 0
        /\ resp[t1].per_esp[rq[t2].esp_id].present
        /\ resp[t2].per_esp[rq[t1].esp_id].present

C4_NoTransientFileLeft ==
    \A t \in Uploads : Done(t) => ~OwnFileLeft(t)

C6_EmptyBodyIs400 ==
    \A t \in Uploads :
        (Done(t) /\ rq[t].data = "") =>
           /\ resp[t].status = 400
           /\ resp[t].error = "no image data"
           /\ rq[t].steps = NoSteps

\* an empty upload that carried both headers and was answered 400
C6_Witness ==
    \E t \in Uploads :
        /\ Done(t) /\ rq[t].data = "" /\ rq[t].hdr = "cam1" /\ rq[t].tsh = "int"
        /\ resp[t].status = 400

\* C7: when the gateway call fails, the request returns 500 with error and
\* detail, its transient file is removed, and it performs no archival, no
\* ledger update, no local save and no remote backup.
C7_InferenceFailureAborts ==
    \A t \in Uploads :
        (Done(t) /\ rq[t].cause = "inference") =>
           /\ resp[t] = WorkflowFailed
           /\ ~OwnFileLeft(t)
           /\ rq[t].steps = NoSteps

\* C8: at the end of the load, a local file that read as valid JSON is the
\* ledger and no remote fetch was made; with no local file and a valid blob
\* fetched and written locally, the ledger and the local file hold the blob's
\* content; with neither available the ledger is empty.
C8_LoadTiers ==
    ld.pc = "done" =>
       /\ ld.local = "valid" =>
             /\ ESP_RESULTS = ld.local0.content
             /\ ~ld.fetched
             /\ localFile = ld.local0
       /\ (ld.local = "missing" /\ ld.fetch = "valid" /\ ld.persist = "ok") =>
             /\ ESP_RESULTS = ld.remote0.content
             /\ localFile = Blob(ld.remote0.content)
       /\ (ld.local # "valid" /\ ld.fetch # "valid") => ESP_RESULTS = EmptyLedger

\* no local file, a blob with records fetched and persisted
C8_Witness ==
    /\ ld.pc = "done" /\ ld.local = "missing" /\ ld.fetch = "valid"
    /\ ld.persist = "ok"
    /\ ESP_RESULTS # EmptyLedger
    /\ localFile.state = "valid"

\* C9: load never raises outward: from every combination of local and remote
\* outcome it goes on to its end, and after a local file that exists but
\* cannot be read or decoded the remote fetch is still made.
C9_LoadNeverRaises ==
    /\ ~ld.raised
    /\ ld.pc # "done" => ENABLED NextLoad
    /\ ld.pc = "done" =>
          /\ ld.local \in {"missing", "malformed", "io_error", "valid"}
          /\ ld.local # "valid" =>
                /\ ld.fetched
                /\ ld.fetch \in {"valid", "undecodable", "non200", "transport"}

\* a local file that could not be read, then an undecodable blob
C9_Witness ==
    /\ ld.pc = "done" /\ ld.local = "io_error" /\ ld.fetch = "undecodable"
    /\ ld.local0.state = "valid"

\* C10: a summary response is a snapshot: its per_esp is the ledger as it was
\* when the handler took the lock, the ledger does not change while it holds
\* it, and its total_all_esp is the sum of count over that per_esp.
C10_SummarySnapshot ==
    \A s \in Summaries :
        /\ sq[s].pc = "locked" => ESP_RESULTS = sq[s].snap
        /\ sresp[s].status = 200 =>
              /\ sresp[s].per_esp = sq[s].snap
              /\ sresp[s].total_all_esp = Total(sresp[s].per_esp)

\* a summary taken between the ledger updates of two uploads
C10_Witness ==
    \E s \in Summaries : \E t \in Uploads :
        /\ sresp[s].status = 200
        /\ sresp[s].total_all_esp > 0
        /\ "update" \in rq[t].steps
        /\ ~sresp[s].per_esp[rq[t].esp_id].present

\* a step of a summary request
SummaryStep == \E s \in Summaries : sq'[s] # sq[s]

\* C11: a step of GET /summary leaves the ledger, the local file and the
\* remote blob as they are, and a summary call answers exactly what the call
\* before it answered when no upload replaced a record between the two.
C11_SummaryIdempotent ==
    /\ [][SummaryStep => UNCHANGED <<ESP_RESULTS, localFile, remote>>]_vars
    /\ [](\A s \in Summaries :
             ( /\ sresp[s].status = 200 /\ sq[s].prev.status = 200
               /\ ~sq[s].dirty ) => sresp[s] = sq[s].prev)

\* a second summary, with no record replaced since the first, over a ledger
\* that holds a count
C11_Witness ==
    \E s \in Summaries :
        /\ sresp[s].status = 200 /\ sq[s].prev.status = 200 /\ ~sq[s].dirty
        /\ sresp[s].total_all_esp > 0

\* the label and the confidence of a prediction read under either field name
AliasLabel(p) ==
    IF p.class # Absent THEN p.class ELSE IF p.label # Absent THEN p.label ELSE ""
AliasConfidence(p) ==
    IF p.confidence # NoConf THEN p.confidence
    ELSE IF p.score # NoConf THEN p.score ELSE 0
AliasKeeps(p) ==
    /\ Lower(AliasLabel(p)) = Lower(TARGET_LABEL)
    /\ AliasConfidence(p) >= CONF_THRESHOLD
\* the predictions parsed from what the gateway returned to a request
ParsedOf(t) == ParsePredictions(rq[t].result).preds

\* C12: in every 200 response the filter has kept a prediction exactly when
\* its label, under the field class or label and compared without case, is
\* the target label and its confidence, under the field confidence or score
\* and 0 when absent, is at least the threshold; the count returned and the
\* count stored are the number of such predictions.
C12_FilterAcceptsAliases ==
    \A t \in Uploads :
        Ok(t) =>
           /\ \A i \in 1..Len(ParsedOf(t)) :
                 Keeps(ParsedOf(t)[i]) <=> AliasKeeps(ParsedOf(t)[i])
           /\ resp[t].detected_this_esp = Len(SelectSeq(ParsedOf(t), AliasKeeps))
           /\ resp[t].per_esp[rq[t].esp_id].count = resp[t].detected_this_esp

\* the gateway call of the request returned a value
GatewayReturned(t) ==
    /\ rq[t].pc \notin {"idle", "infer"}
    /\ rq[t].cause \notin {"empty", "temp_write", "inference"}
\* a value of none of the shapes lines 139-147 take predictions from: no
\* predictions or result key, not a list or an object, or predictions null
Unrecognised(result) == result.shape \in {"dict_other", "other", "dict_null"}
\* a list on which line 141 raises: one of its items is not a container
ParseFails(result) ==
    /\ result.shape = "list"
    /\ \E i \in 1..Len(result.items) : result.items[i].kind = "number"

\* C13: a request to which the gateway returned a value of no recognised
\* shape, or one whose parsing fails, completes with 200, count 0 and no
\* objects.
C13_ParseFailureGivesEmptyList ==
    \A t \in Uploads :
        ( /\ Done(t) /\ GatewayReturned(t)
          /\ Unrecognised(rq[t].result) \/ ParseFails(rq[t].result) ) =>
           /\ Ok(t)
           /\ resp[t].detected_this_esp = 0
           /\ resp[t].objects = <<>>

\* C14: every item of the objects list of a 200 response has the two fields
\* label and confidence, the label of the kept prediction and its confidence
\* times 100, and the predictions kept are those whose unscaled confidence
\* is at least the threshold.
C14_ObjectsRescaled ==
    \A t \in Uploads :
        Ok(t) =>
           /\ Len(resp[t].objects) = Len(Filtered(ParsedOf(t)))
           /\ \A i \in 1..Len(resp[t].objects) :
                 /\ Filtered(ParsedOf(t))[i].confidence >= CONF_THRESHOLD
                 /\ DOMAIN resp[t].objects[i] = {"label", "confidence"}
                 /\ resp[t].objects[i].label = Lower(GetClass(Filtered(ParsedOf(t))[i]))
                 /\ resp[t].objects[i].confidence
                       = 100 * Filtered(ParsedOf(t))[i].confidence

\* a step that changes the ledger is the record replacement of one upload
\* that got through inference, has not replaced its record before and takes
\* the lock; it writes that upload's record and no other
LedgerFrame ==
    ESP_RESULTS' # ESP_RESULTS =>
       \E t \in Uploads :
          /\ PassedInference(t) /\ ~Updated(t) /\ "update" \in rq'[t].steps
          /\ ESP_LOCK = NoThread /\ ESP_LOCK' = t
          /\ rq[t].count = Len(Filtered(ParsedOf(t)))
          /\ ESP_RESULTS' = [ESP_RESULTS EXCEPT ![rq[t].esp_id] = OwnRec(t)]

\* C15: while serving, the ledger changes only by the record replacement of
\* an upload that holds the lock and got through inference, which sets that
\* upload's device record to its count of filtered detections and its
\* timestamp times 1000 and leaves the other records as they are; every
\* upload that got through inference has made that replacement, once, by the
\* time it completes.
C15_OneUpdatePerInference ==
    /\ [][LedgerFrame]_vars
    /\ [](\A t \in Uploads : (Done(t) /\ PassedInference(t)) => Updated(t))

\* every change of the ledger is such a record replacement
LedgerChangesOnlyByUpdate == [][LedgerFrame]_vars

\* the steps of lines 190-219
InLock == {"save", "backup_get", "backup_put"}
\* the steps an upload has performed when it stands at a step of InLock
StepsBefore(pc) ==
    CASE pc = "save" -> {"archive", "update"}
      [] pc = "backup_get" -> {"archive", "update", "save"}
      [] OTHER -> {"archive", "update", "save", "backup_get"}

\* C16: an upload that has replaced its record goes on to the local save,
\* the marker fetch and the conditional write in that order, holding the
\* lock throughout; meanwhile no other upload is at its own ledger steps, no
\* summary is reading and the ledger does not change; the archival attempt
\* was made before the record was replaced.
C16_LedgerStepsInOrderUnderLock ==
    /\ [](\A t \in Uploads :
             /\ rq[t].pc \in InLock =>
                   /\ ESP_LOCK = t
                   /\ rq[t].steps = StepsBefore(rq[t].pc)
                   /\ ESP_RESULTS[rq[t].esp_id] = OwnRec(t)
                   /\ \A u \in Uploads \ {t} : rq[u].pc \notin InLock
                   /\ \A s \in Summaries : sq[s].pc # "locked"
             /\ rq[t].pc = "lock" => rq[t].steps = {"archive"}
             /\ (Updated(t) /\ rq[t].pc \notin InLock) =>
                   /\ {"archive", "update", "save", "backup_get"} \subseteq rq[t].steps
                   /\ "backup_put" \in rq[t].steps \/ "backup" \in rq[t].failed)
    /\ [][(\E t \in Uploads : rq[t].pc \in InLock) =>
             /\ ESP_RESULTS' = ESP_RESULTS
             /\ \A s \in Summaries : sq'[s] = sq[s]]_vars

\* an upload at its conditional write while the other upload waits for the
\* lock and a summary has been served before
C16_Witness ==
    \E t1 \in Uploads : \E t2 \in Uploads \ {t1} :
        /\ rq[t1].pc = "backup_put" /\ rq[t2].pc = "lock"
        /\ \E s \in Summaries : sresp[s].status = 200

\* the step at which the remote backup of an upload fails
BackupFails(t) == "backup" \notin rq[t].failed /\ "backup" \in rq'[t].failed

\* C17: the step at which the remote backup of an upload fails, at the marker
\* fetch or at the write, leaves the ledger and the local file as they are:
\* the ledger holds the record the upload wrote, and so does the local file
\* when the local save succeeded; the request goes on to return 200.
C17_BackupFailureKeepsState ==
    /\ [][\A t \in Uploads :
             BackupFails(t) =>
                /\ ESP_RESULTS' = ESP_RESULTS /\ localFile' = localFile
                /\ ESP_RESULTS'[rq[t].esp_id] = OwnRec(t)
                /\ "save" \notin rq[t].failed => localFile' = Blob(ESP_RESULTS)
                /\ rq'[t].pc = "total"]_vars
    /\ [](\A t \in Uploads :
             (Done(t) /\ "backup" \in rq[t].failed) => Ok(t))

\* a 200 response of an upload that counted a detection and saved it locally,
\* and whose backup failed: the remote store holds nothing
C17_Witness ==
    \E t \in Uploads :
        /\ Done(t) /\ Ok(t) /\ rq[t].failed = {"backup"}
        /\ rq[t].count = 1
        /\ localFile = Blob(ESP_RESULTS) /\ ESP_RESULTS[rq[t].esp_id] = OwnRec(t)
        /\ remote = NoBlob

\* C18: when the local tier did not give a ledger and the remote fetch gave
\* a decodable blob, load ends with the ledger equal to the blob's content,
\* whether the local write of that content succeeded or not.
C18_RemoteLedgerKeptWhenPersistFails ==
    (ld.pc = "done" /\ ld.local # "valid" /\ ld.fetch = "valid") =>
        ESP_RESULTS = ld.remote0.content

\* C19: while an upload is about to hand its transient file to the gateway
\* or to image archival, the file exists and holds the bytes of that
\* upload's own body, written whole.
C19_TransientFileIsOwn ==
    \A t \in Uploads :
        rq[t].pc \in {"infer", "archive"} =>
            files[Filename(rq[t])] = File(BodyOf(t), TRUE)

\* C20: the lock is held exactly by a request inside its with block, so a
\* request that has left it, on whatever outcome of the local save, the
\* marker fetch and the write, no longer holds it; under fairness a held lock
\* is eventually free and every upload waiting for the lock eventually holds
\* it.
C20_LockAlwaysReleased ==
    /\ [](\A t \in Uploads : ESP_LOCK = t <=> rq[t].pc \in InLock)
    /\ [](\A s \in Summaries : ESP_LOCK = s <=> sq[s].pc = "locked")
    /\ (ESP_LOCK # NoThread) ~> (ESP_LOCK = NoThread)
    /\ \A t \in Uploads : (rq[t].pc = "lock") ~> (ESP_LOCK = t)

\* an upload holds the lock after the other, whose local save and backup
\* both failed, has left it
C20_Witness ==
    \E t1 \in Uploads : \E t2 \in Uploads \ {t1} :
        /\ {"save", "backup"} \subseteq rq[t1].failed
        /\ rq[t1].pc \in {"total", "respond", "done"}
        /\ ESP_LOCK = t2

====
